---- MODULE Spec2Model ----
(***************************************************************************)
(* Evidence Accumulation Clustering engine of TS-RFCM                      *)
(* (src/models/rfcm_clusterer.py, class RFCMClusterer), driven the way     *)
(* ClusteringStage.execute drives one strategy:                            *)
(*   load_data -> fit_predict -> save_results -> post_process.             *)
(*                                                                         *)
(* Unit identifiers are strings in the program ("10.0.0.1",                *)
(* "10.0.0.0_24").  Here a unit is a record [kind, addr, pfx]: addr is the *)
(* dotted part as a sequence of numbers, kind/pfx tell whether the string  *)
(* carries a "_<prefix>" suffix.  Real numbers that the program obtains by *)
(* dividing two integers are kept as reduced fractions <<num, den>>.       *)
(***************************************************************************)
EXTENDS Integers, Sequences, FiniteSets, TLC

\* ------------------------------------------------------------------------
\* Bounds of the model
\* ------------------------------------------------------------------------

\* largest distance-to-centroid value the base partitioner reports
MaxDistance == 1

\* cluster ids the base partitioner hands out
PartitionerLabels == {0, 1}

\* ------------------------------------------------------------------------
\* Unit identifiers and the network-containment function
\* ------------------------------------------------------------------------

\* the netmask for which the unit is the host address itself
HostMask == 32

HostUnit(a) == [kind |-> "host", addr |-> a, pfx |-> HostMask]

NetUnit(a, m) == [kind |-> "net", addr |-> a, pfx |-> m]

\* str(net): the text "a.b.c.d/m"; NetUnit(a, m) is the text "a.b.c.d_m"
CidrText(a, m) == [kind |-> "cidr", addr |-> a, pfx |-> m]

\* key = None
NoneKey == [kind |-> "none", addr |-> <<>>, pfx |-> 0]

RECURSIVE Pow2(_)
Pow2(n) == IF n <= 0 THEN 1 ELSE 2 * Pow2(n - 1)

\* ipaddress accepts a dotted quad of four octets, each 0..255
IsValidAddress(a) ==
    /\ Len(a) = 4
    /\ \A i \in 1..4 : a[i] \in 0..255

MaskOctetKeep(o, i, m) == o

\* octet i of the network address of a under an m-bit prefix (strict=False:
\* the host bits are cleared)
MaskOctet(o, i, m) ==
    IF 8 * i <= m THEN o
    ELSE IF 8 * (i - 1) >= m THEN 0
    ELSE o - (o % Pow2(8 * i - m))

NetworkKeyWithSlash(host, mask) ==
    IF IsValidAddress(host.addr) /\ host.kind = "host" /\ mask \in 0..32
    THEN CidrText([i \in 1..4 |-> MaskOctet(host.addr[i], i, mask)], mask)
    ELSE NoneKey

NetworkKeyPadded(host, mask) ==
    LET a == host.addr
        padded == IF Len(a) = 3 THEN <<a[1], a[2], 0, a[3]>> ELSE a
    IN  IF IsValidAddress(padded) /\ host.kind = "host" /\ mask \in 0..32
        THEN NetUnit([i \in 1..4 |-> MaskOctet(padded[i], i, mask)], mask)
        ELSE NoneKey

\* ipaddress.ip_network(f"{host_ip}/{mask}", strict=False), then
\* str(net).replace('/', '_'); ValueError gives None
NetworkKey(host, mask) ==
    IF IsValidAddress(host.addr) /\ host.kind = "host" /\ mask \in 0..32
    THEN NetUnit([i \in 1..4 |-> MaskOctet(host.addr[i], i, mask)], mask)
    ELSE NoneKey

HostKeyAlwaysNetwork(host_ip, mask) == NetworkKey(host_ip, mask)

\* the key under which a host is looked up in a member of level mask
HostKey(host_ip, mask) ==
    IF mask = HostMask THEN host_ip ELSE NetworkKey(host_ip, mask)

\* ------------------------------------------------------------------------
\* The unit identifiers the feature store writes
\* ------------------------------------------------------------------------

\* helpers.get_ip_network: the address itself for prefix 32, else the text of
\* the containing network, None on ValueError
get_ip_network(ip_str, prefix_len) ==
    IF prefix_len = 32 THEN ip_str
    ELSE IF IsValidAddress(ip_str.addr) /\ ip_str.kind = "host"
            /\ prefix_len \in 0..32
         THEN CidrText([i \in 1..4 |-> MaskOctet(ip_str.addr[i], i, prefix_len)],
                       prefix_len)
         ELSE NoneKey

\* str(key).replace('/', '_')
safe_key(key) ==
    IF key.kind = "cidr" THEN NetUnit(key.addr, key.pfx) ELSE key

\* the unit FeatureEngineeringStage files the flows of source address sa
\* under at level mask; NoneKey when dropna removes them
FeatureStoreUnit(sa, mask) ==
    LET group_key == IF mask = 32 THEN sa ELSE get_ip_network(sa, mask)
    IN  IF group_key = NoneKey THEN NoneKey ELSE safe_key(group_key)

\* ------------------------------------------------------------------------
\* Inputs: the feature store on disk and the configuration
\* ------------------------------------------------------------------------

h1 == HostUnit(<<10, 0, 0, 1>>)
h2 == HostUnit(<<10, 0, 0, 2>>)
h3 == HostUnit(<<10, 0, 1, 1>>)
\* a malformed line of sample.txt
h4 == HostUnit(<<10, 0, 1, 2>>)
hbad == HostUnit(<<10, 0, 1>>)

net24a == NetUnit(<<10, 0, 0, 0>>, 24)
net24b == NetUnit(<<10, 0, 1, 0>>, 24)
net16 == NetUnit(<<10, 0, 0, 0>>, 16)

\* One level directory mask_<m>: the lines of sample.txt and the number of
\* rows of pyts_dataset.npy
Level(samples, rows) == [samples |-> samples, rows |-> rows]

\* A scenario: the lines of mask_32/sample.txt, config.EAC_MASKS,
\* n_clusters, and the level directories of the configured masks.
Scenarios ==
    { \* three hosts, the host level only, cluster counts 2 and 3
      [hosts |-> <<h1, h2, h3>>, masks |-> <<32>>, k |-> 2,
       store |-> (32 :> Level(<<h1, h2, h3>>, 3))],
      \* two levels; the host-level tensor is one row short of sample.txt
      [hosts |-> <<h1, h2, h3>>, masks |-> <<24, 32>>, k |-> 1,
       store |-> (24 :> Level(<<net24a, net24b>>, 2)
                  @@ 32 :> Level(<<h1, h2, h3>>, 2))],
      \* three levels; one malformed host; 10.0.1.0/24 has no unit
      [hosts |-> <<h1, h3, hbad>>, masks |-> <<16, 24, 32>>, k |-> 1,
       store |-> (16 :> Level(<<net16>>, 1)
                  @@ 24 :> Level(<<net24a>>, 1)
                  @@ 32 :> Level(<<h1, h3, hbad>>, 3))],
      \* all three cluster counts k0-1, k0, k0+1; the tensor has one row
      [hosts |-> <<h1, h3>>, masks |-> <<32>>, k |-> 3,
       store |-> (32 :> Level(<<h1, h3>>, 1))],
      \* a single host and no host at all
      [hosts |-> <<h1>>, masks |-> <<32>>, k |-> 2,
       store |-> (32 :> Level(<<h1>>, 1))],
      [hosts |-> <<>>, masks |-> <<24, 32>>, k |-> 2,
       store |-> (24 :> Level(<<net24a>>, 1)
                  @@ 32 :> Level(<<>>, 0))],
      \* the same mask configured twice
      [hosts |-> <<h1>>, masks |-> <<24, 24>>, k |-> 1,
       store |-> (24 :> Level(<<net24a>>, 1))],
      \* four hosts in two /24 networks, clustered at the /24 level only
      [hosts |-> <<h1, h2, h3, h4>>, masks |-> <<24>>, k |-> 2,
       store |-> (24 :> Level(<<net24a, net24b>>, 2))],
      \* the same four hosts; only 10.0.0.0/24 has a unit
      [hosts |-> <<h1, h2, h3, h4>>, masks |-> <<24>>, k |-> 2,
       store |-> (24 :> Level(<<net24a>>, 1))] }

\* a file that does not exist, and a file with content c
NoFile == [written |-> FALSE, content |-> <<>>]

File(c) == [written |-> TRUE, content |-> c]

VARIABLES
    pc,               \* position in the strategy's sequence of calls
    host_file,        \* the file mask_32/sample.txt
    EAC_MASKS,        \* config.EAC_MASKS
    base_k,           \* self.base_k
    store,            \* mask -> level directory
    missing,          \* masks whose pyts_dataset.npy does not exist
    host_list,        \* self.host_list
    ensemble_results, \* self.ensemble_results
    mask_idx,         \* fit_predict: index of the current mask
    k_idx,            \* fit_predict: index into k_values, 0 before the load
    invocations,      \* calls of RFCM(n_clusters=k).fit: <<mask, k, succeeded>>
    run_files,        \* save_results: file name -> serialized labels
    mapped_partitions,
    outlier_vector,
    run_idx,          \* post_process: index of the member being reconciled
    co_matrix,
    linkage_called,   \* whether scipy's linkage has been called
    final_labels_,    \* self.final_labels_
    sorted_csv,       \* the file MODEL_OUTPUT_PATHS["rfcm_sorted"]
    types_json,       \* the file MODEL_OUTPUT_PATHS["rfcm_types"]
    first_pass,       \* what an earlier call of post_process computed
    stage_idx,        \* run_analysis: index of the stage in self.pipeline
    halted,           \* run_analysis: whether it returned from the handler
    context,          \* the keys of the dict self.context
    returned,         \* the keys the dict had when a stage last returned it
    executed,         \* the stages whose execute was called, in order
    models_to_run,    \* self.models_to_run
    model_idx,        \* ClusteringStage.execute: index of the current model
    step,             \* ClusteringStage.execute: the call to make next
    calls             \* the calls made: <<model index, call, outcome>>

vars == <<pc, host_file, EAC_MASKS, base_k, store, missing, host_list,
          ensemble_results, mask_idx, k_idx, invocations, run_files,
          mapped_partitions, outlier_vector, run_idx, co_matrix,
          linkage_called, final_labels_, sorted_csv, types_json, first_pass,
          stage_idx, halted, context, returned, executed, models_to_run,
          model_idx, step, calls>>

inputVars == <<host_file, EAC_MASKS, base_k, store, missing>>

fitVars == <<ensemble_results, mask_idx, k_idx, invocations>>

postVars == <<mapped_partitions, outlier_vector, run_idx, co_matrix,
              linkage_called, final_labels_, sorted_csv, types_json>>

facadeVars == <<stage_idx, halted, context, returned, executed>>

stageVars == <<models_to_run, model_idx, step, calls>>

clustererVars == <<pc, first_pass, inputVars, host_list, fitVars, run_files,
                   postVars>>

\* AnalysisFacade.__init__ and ClusteringStage.__init__
FacadeNew ==
    /\ stage_idx = 1
    /\ halted = FALSE
    /\ context = {}
    /\ returned = {}
    /\ executed = <<>>
    /\ model_idx = 0
    /\ step = "idle"
    /\ calls = <<>>

outVars == <<linkage_called, final_labels_, sorted_csv, types_json>>

\* post_process has not been called before
NoPass == [called |-> FALSE, mapped_partitions |-> <<>>, outlier_vector |-> <<>>]

MaskSet(masks) == {masks[i] : i \in 1..Len(masks)}

\* RFCMClusterer.__init__
Init ==
    /\ \E s \in Scenarios :
        /\ host_file \in {File(s.hosts), NoFile}
        /\ EAC_MASKS = s.masks
        /\ base_k = s.k
        /\ store = s.store
        /\ missing \in SUBSET MaskSet(s.masks)
    /\ pc = "new"
    /\ host_list = <<>>
    /\ ensemble_results = <<>>
    /\ mask_idx = 0
    /\ k_idx = 0
    /\ invocations = <<>>
    /\ run_files = <<>>
    /\ mapped_partitions = <<>>
    /\ outlier_vector = <<>>
    /\ run_idx = 0
    /\ co_matrix = <<>>
    /\ linkage_called = FALSE
    /\ final_labels_ = <<>>
    /\ sorted_csv = NoFile
    /\ types_json = NoFile
    /\ first_pass = NoPass
    /\ FacadeNew
    /\ models_to_run = <<"rfcm">>

\* ------------------------------------------------------------------------
\* load_data
\* ------------------------------------------------------------------------

ReadLinesReversed(f) ==
    [i \in 1..Len(f.content) |-> f.content[Len(f.content) - i + 1]]

\* [line.strip() for line in f.readlines()]
ReadLines(f) == f.content

load_data ==
    /\ pc = "new"
    /\ host_file.written
    /\ host_list' = ReadLines(host_file)
    /\ pc' = "loaded"
    /\ UNCHANGED <<facadeVars, stageVars, first_pass,
                   inputVars, fitVars, run_files, postVars>>

\* raise FileNotFoundError("Host level (mask 32) sample file not found...")
load_data_fail ==
    /\ pc = "new"
    /\ ~host_file.written
    /\ pc' = "error"
    /\ UNCHANGED <<facadeVars, stageVars, first_pass,
                   inputVars, host_list, fitVars, run_files, postVars>>

\* ------------------------------------------------------------------------
\* fit_predict
\* ------------------------------------------------------------------------

\* k_values = [self.base_k - 1, self.base_k, self.base_k + 1]
k_values == <<base_k - 1, base_k, base_k + 1>>

SkipKBelowOne(k) == k < 1

\* if k < 2: continue
SkipK(k) == k < 2

\* dict(zip(samples, values)): zip stops at the shorter argument, a repeated
\* key keeps its last value
ZipLen(samples, values) ==
    IF Len(samples) <= Len(values) THEN Len(samples) ELSE Len(values)

LastIndex(samples, n, u) ==
    CHOOSE i \in 1..n :
        /\ samples[i] = u
        /\ \A j \in 1..n : samples[j] = u => j <= i

DictZip(samples, values) ==
    LET n == ZipLen(samples, values)
    IN  [u \in {samples[i] : i \in 1..n} |-> values[LastIndex(samples, n, u)]]

\* the loop position after the body for k_values[ki] of the current mask
NextK(ki) == IF ki = 3 THEN 0 ELSE ki + 1

NextMask(mi, ki) == IF ki = 3 THEN mi + 1 ELSE mi

AfterMissingBreak(mi) == Len(EAC_MASKS) + 1

\* continue (the mask's data is not found)
AfterMissing(mi) == mi + 1

AfterPartitionerErrorRaise(p) == "error"

\* the except clause prints and the loop goes on
AfterPartitionerError(p) == p

fit_predict_begin ==
    /\ pc = "loaded"
    /\ pc' = "fit"
    /\ mask_idx' = 1
    /\ k_idx' = 0
    /\ UNCHANGED <<facadeVars, stageVars, first_pass,
                   inputVars, host_list, ensemble_results, invocations,
                   run_files, postVars>>

\* if not os.path.exists(pyts_path): ... continue
fit_skip_mask ==
    /\ pc = "fit"
    /\ mask_idx <= Len(EAC_MASKS)
    /\ k_idx = 0
    /\ EAC_MASKS[mask_idx] \in missing
    /\ mask_idx' = AfterMissing(mask_idx)
    /\ UNCHANGED <<facadeVars, stageVars, first_pass,
                   pc, inputVars, host_list, ensemble_results, k_idx,
                   invocations, run_files, postVars>>

\* dropna(nparray) reads nparray[0]: IndexError on a tensor without rows
DropnaRaises(rows) == rows = 0

\* np.load, dropna, read sample.txt
fit_load_mask ==
    /\ pc = "fit"
    /\ mask_idx <= Len(EAC_MASKS)
    /\ k_idx = 0
    /\ EAC_MASKS[mask_idx] \notin missing
    /\ ~DropnaRaises(store[EAC_MASKS[mask_idx]].rows)
    /\ k_idx' = 1
    /\ UNCHANGED <<facadeVars, stageVars, first_pass,
                   pc, inputVars, host_list, ensemble_results, mask_idx,
                   invocations, run_files, postVars>>

\* the exception of dropna leaves fit_predict
fit_load_fail ==
    /\ pc = "fit"
    /\ mask_idx <= Len(EAC_MASKS)
    /\ k_idx = 0
    /\ EAC_MASKS[mask_idx] \notin missing
    /\ DropnaRaises(store[EAC_MASKS[mask_idx]].rows)
    /\ pc' = "error"
    /\ UNCHANGED <<facadeVars, stageVars, first_pass,
                   inputVars, host_list, fitVars, run_files, postVars>>

fit_skip_k ==
    /\ pc = "fit"
    /\ mask_idx <= Len(EAC_MASKS)
    /\ k_idx \in 1..3
    /\ SkipK(k_values[k_idx])
    /\ k_idx' = NextK(k_idx)
    /\ mask_idx' = NextMask(mask_idx, k_idx)
    /\ UNCHANGED <<facadeVars, stageVars, first_pass,
                   pc, inputVars, host_list, ensemble_results, invocations,
                   run_files, postVars>>

\* model.labels_ after fit: one cluster id per row of the tensor
PartitionerLabelings(rows) == [1..rows -> PartitionerLabels]

\* model.distances_ after fit: one distance >= 0 per row of the tensor
PartitionerDistances(rows) == [1..rows -> 0..MaxDistance]

CollectAtFront(results, member) == <<member>> \o results

\* self.ensemble_results.append({...})
Collect(results, member) == Append(results, member)

\* model.fit(data) succeeds
fit_run_ok ==
    /\ pc = "fit"
    /\ mask_idx <= Len(EAC_MASKS)
    /\ k_idx \in 1..3
    /\ ~SkipK(k_values[k_idx])
    /\ LET mask == EAC_MASKS[mask_idx]
           k == k_values[k_idx]
           samples == store[mask].samples
           rows == store[mask].rows
       IN  \E labels \in PartitionerLabelings(rows),
              dists \in PartitionerDistances(rows) :
               /\ ensemble_results' = Collect(ensemble_results,
                      [mask |-> mask, k |-> k,
                       labels |-> DictZip(samples, labels),
                       distances |-> DictZip(samples, dists)])
               /\ invocations' = Append(invocations, <<mask, k, TRUE>>)
    /\ k_idx' = NextK(k_idx)
    /\ mask_idx' = NextMask(mask_idx, k_idx)
    /\ UNCHANGED <<facadeVars, stageVars, first_pass,
                   pc, inputVars, host_list, run_files, postVars>>

\* model.fit(data) raises: except Exception
fit_run_fail ==
    /\ pc = "fit"
    /\ mask_idx <= Len(EAC_MASKS)
    /\ k_idx \in 1..3
    /\ ~SkipK(k_values[k_idx])
    /\ invocations' = Append(invocations,
                             <<EAC_MASKS[mask_idx], k_values[k_idx], FALSE>>)
    /\ pc' = AfterPartitionerError("fit")
    /\ k_idx' = NextK(k_idx)
    /\ mask_idx' = NextMask(mask_idx, k_idx)
    /\ UNCHANGED <<facadeVars, stageVars, first_pass,
                   inputVars, host_list, ensemble_results, run_files,
                   postVars>>

fit_predict_end ==
    /\ pc = "fit"
    /\ mask_idx > Len(EAC_MASKS)
    /\ pc' = "fitted"
    /\ UNCHANGED <<facadeVars, stageVars, first_pass,
                   inputVars, host_list, fitVars, run_files, postVars>>

\* ------------------------------------------------------------------------
\* save_results
\* ------------------------------------------------------------------------

RunFileNameNoIndex(i, res) == <<0, res.mask, res.k>>

\* f"run_{i}_mask{res['mask']}_k{res['k']}.json"
RunFileName(i, res) == <<i, res.mask, res.k>>

\* {k: int(v) for k, v in res['labels'].items()}
SerializableLabels(res) == [u \in DOMAIN res.labels |-> res.labels[u]]

RunFiles(results) ==
    [name \in {RunFileName(i - 1, results[i]) : i \in 1..Len(results)} |->
        LET i == CHOOSE j \in 1..Len(results) :
                    /\ RunFileName(j - 1, results[j]) = name
                    /\ \A l \in 1..Len(results) :
                           RunFileName(l - 1, results[l]) = name => l <= j
        IN  SerializableLabels(results[i])]

save_results_draining ==
    /\ pc = "fitted"
    /\ run_files' = RunFiles(ensemble_results)
    /\ ensemble_results' = <<>>
    /\ pc' = "saved"
    /\ UNCHANGED <<facadeVars, stageVars, first_pass,
                   inputVars, host_list, mask_idx, k_idx,
                   invocations, postVars>>

save_results ==
    /\ pc = "fitted"
    /\ run_files' = RunFiles(ensemble_results)
    /\ pc' = "saved"
    /\ UNCHANGED <<facadeVars, stageVars, first_pass,
                   inputVars, host_list, fitVars, postVars>>

\* an exception that does not leave the strategy
save_results_swallowed ==
    /\ pc = "fitted"
    /\ pc' = "saved"
    /\ UNCHANGED <<facadeVars, stageVars, first_pass,
                   inputVars, host_list, fitVars, run_files, postVars>>

\* the target directory cannot be looked up or created: the exception leaves
\* the strategy before the loop over the members
save_results_fail ==
    /\ pc = "fitted"
    /\ pc' = "error"
    /\ UNCHANGED <<facadeVars, stageVars, first_pass,
                   inputVars, host_list, fitVars, run_files, postVars>>

\* open or json.dump raises for the member after the first n: the exception
\* leaves the strategy, the files of the first n members are written
save_results_write_fail ==
    /\ pc = "fitted"
    /\ \E n \in 0..(Len(ensemble_results) - 1) :
          run_files' = RunFiles(SubSeq(ensemble_results, 1, n))
    /\ pc' = "error"
    /\ UNCHANGED <<facadeVars, stageVars, first_pass,
                   inputVars, host_list, fitVars, postVars>>

\* ------------------------------------------------------------------------
\* post_process: reconciliation and outlier accumulation
\* ------------------------------------------------------------------------

\* mapped_partitions[run_idx][host_idx] = -1
Sentinel == -1

n_samples == Len(host_list)

n_partitions == Len(ensemble_results)

\* np.zeros((rows, cols))
Zeros(rows, cols) == [r \in 1..rows |-> [c \in 1..cols |-> 0]]

NoPartitionsUnchecked(n) == FALSE

\* if n_partitions == 0: return
NoPartitions(n) == n = 0

MappedLabelDefaultZero(res, key) ==
    IF key \in DOMAIN res.labels THEN res.labels[key] ELSE 0

\* if key in label_dict / else
MappedLabel(res, key) ==
    IF key \in DOMAIN res.labels THEN res.labels[key] ELSE Sentinel

AccumulateAssign(score, dist) == dist

\* outlier_vector[host_idx] += dist_dict[key]
Accumulate(score, dist) == score + dist

OutlierAfter(res, key, score) ==
    IF key \in DOMAIN res.labels
    THEN Accumulate(score, res.distances[key])
    ELSE score

FreshScoresKept(n) ==
    IF Len(outlier_vector) = n THEN outlier_vector ELSE [h \in 1..n |-> 0]

\* outlier_vector = np.zeros(n_samples), a local of post_process
FreshScores(n) == [h \in 1..n |-> 0]

post_process_begin ==
    /\ pc = "saved"
    /\ co_matrix' = Zeros(n_samples, n_samples)
    /\ outlier_vector' = FreshScores(n_samples)
    /\ IF NoPartitions(n_partitions)
       THEN /\ pc' = "returned"
            /\ UNCHANGED <<mapped_partitions, run_idx>>
       ELSE /\ pc' = "reconcile"
            /\ mapped_partitions' = Zeros(n_partitions, n_samples)
            /\ run_idx' = 1
    /\ UNCHANGED <<facadeVars, stageVars, first_pass,
                   inputVars, host_list, fitVars, run_files, outVars>>

\* one iteration of: for run_idx, res in enumerate(self.ensemble_results)
reconcile_member ==
    /\ pc = "reconcile"
    /\ run_idx <= n_partitions
    /\ LET res == ensemble_results[run_idx]
       IN  /\ mapped_partitions' =
                [mapped_partitions EXCEPT ![run_idx] =
                    [h \in 1..n_samples |->
                        MappedLabel(res, HostKey(host_list[h], res.mask))]]
           /\ outlier_vector' =
                [h \in 1..n_samples |->
                    OutlierAfter(res, HostKey(host_list[h], res.mask),
                                 outlier_vector[h])]
    /\ run_idx' = run_idx + 1
    /\ UNCHANGED <<facadeVars, stageVars, first_pass,
                   pc, inputVars, host_list, fitVars, run_files, co_matrix,
                   outVars>>

\* ------------------------------------------------------------------------
\* post_process: co-association matrix
\* ------------------------------------------------------------------------

RECURSIVE GCD(_, _)
GCD(a, b) == IF b = 0 THEN a ELSE GCD(b, a % b)

\* the quotient n / d of two non-negative integers; 0 / 0 is nan
Frac(n, d) ==
    IF d = 0 THEN <<0, 0>>
    ELSE LET g == GCD(n, d) IN <<n \div g, d \div g>>

\* matches = (mapped_partitions == vec_i[:, None])
Matches(mp, r, i, k) == mp[r][k] = mp[r][i]

ValidIgnoringSentinel(mp, r, i, k) == TRUE

\* valid = (vec_i[:, None] != -1) & (mapped_partitions != -1)
Valid(mp, r, i, k) == mp[r][i] # Sentinel /\ mp[r][k] # Sentinel

\* np.sum(matches & valid, axis=0)[k], over the first r runs
RECURSIVE SumRuns(_, _, _, _)
SumRuns(mp, r, i, k) ==
    IF r = 0 THEN 0
    ELSE SumRuns(mp, r - 1, i, k)
         + (IF Matches(mp, r, i, k) /\ Valid(mp, r, i, k) THEN 1 ELSE 0)

CoRowUnitDiagonal(mp, i) ==
    [k \in 1..n_samples |->
        IF k = i THEN Len(mp) ELSE SumRuns(mp, Len(mp), i, k)]

CoRowUpperTriangle(mp, i) ==
    [k \in 1..n_samples |->
        IF k >= i THEN SumRuns(mp, Len(mp), i, k) ELSE 0]

\* co_matrix[i] = np.sum(matches & valid, axis=0)
CoRow(mp, i) == [k \in 1..n_samples |-> SumRuns(mp, Len(mp), i, k)]

\* co_matrix /= n_partitions
Normalize(count, n) == Frac(count, n)

build_co_matrix ==
    /\ pc = "reconcile"
    /\ run_idx > n_partitions
    /\ co_matrix' =
         [i \in 1..n_samples |->
             [k \in 1..n_samples |->
                 Normalize(CoRow(mapped_partitions, i)[k], n_partitions)]]
    /\ pc' = "co_built"
    /\ UNCHANGED <<facadeVars, stageVars, first_pass,
                   inputVars, host_list, fitVars, run_files,
                   mapped_partitions, outlier_vector, run_idx, outVars>>

\* ------------------------------------------------------------------------
\* post_process: consensus clustering (scipy linkage / fcluster)
\* ------------------------------------------------------------------------

FracLess(a, b) == a[1] * b[2] < b[1] * a[2]

FracLeq(a, b) == a[1] * b[2] <= b[1] * a[2]

FracAdd(a, b) == Frac(a[1] * b[2] + b[1] * a[2], a[2] * b[2])

\* dist_matrix = 1.0 - co_matrix; np.fill_diagonal(dist_matrix, 0)
OneMinus(c) == Frac(c[2] - c[1], c[2])

DistMatrixNoFill(co) ==
    [i \in 1..Len(co) |-> [k \in 1..Len(co) |-> OneMinus(co[i][k])]]

DistMatrix(co) ==
    [i \in 1..Len(co) |->
        [k \in 1..Len(co) |-> IF i = k THEN <<0, 1>> ELSE OneMinus(co[i][k])]]

\* squareform(dist_matrix) checks that its argument is symmetric
IsSymmetric(m) ==
    \A i \in 1..Len(m) : \A k \in 1..Len(m) : m[i][k] = m[k][i]

\* linkage refuses an empty condensed matrix, which squareform returns for
\* fewer than two observations
TooFewObservations(n) == n < 2

RECURSIVE SumPairs(_, _)
SumPairs(d, pairs) ==
    IF pairs = {} THEN <<0, 1>>
    ELSE LET p == CHOOSE q \in pairs : TRUE
         IN  FracAdd(d[p[1]][p[2]], SumPairs(d, pairs \ {p}))

\* method='average': the mean distance between the members of two clusters
AvgDist(d, A, B) ==
    LET s == SumPairs(d, A \X B)
    IN  Frac(s[1], s[2] * Cardinality(A) * Cardinality(B))

\* The dendrograms average linkage can return for d: a sequence of rows
\* <<a, b, height, size>>, a < b, observations numbered 1..n and the cluster
\* formed by row r numbered n + r.  Among equally close pairs the library's
\* order decides; every such choice is kept.
RECURSIVE LinkFrom(_, _, _, _)
LinkFrom(d, n, act, Z) ==
    IF Cardinality(DOMAIN act) <= 1 THEN {Z}
    ELSE LET ids == DOMAIN act
             pairs == {p \in ids \X ids : p[1] < p[2]}
             h(p) == AvgDist(d, act[p[1]], act[p[2]])
             closest == {p \in pairs : \A q \in pairs : FracLeq(h(p), h(q))}
         IN  UNION { LET new == n + Len(Z) + 1
                         merged == act[p[1]] \cup act[p[2]]
                     IN  LinkFrom(d, n,
                             [c \in (ids \ {p[1], p[2]}) \cup {new} |->
                                 IF c = new THEN merged ELSE act[c]],
                             Append(Z, <<p[1], p[2], h(p), Cardinality(merged)>>))
                   : p \in closest }

Linkage(d) ==
    LinkFrom(d, Len(d), [i \in 1..Len(d) |-> {i}], <<>>)

FracMax(a, b) == IF FracLess(a, b) THEN b ELSE a

\* maxdists(Z): the largest merge height inside the cluster formed by row r
RECURSIVE SubtreeMaxDist(_, _, _)
SubtreeMaxDist(Z, n, r) ==
    LET sub(c) == IF c > n THEN SubtreeMaxDist(Z, n, c - n) ELSE <<0, 1>>
    IN  FracMax(Z[r][3], FracMax(sub(Z[r][1]), sub(Z[r][2])))

MaxDists(Z, n) == [r \in 1..Len(Z) |-> SubtreeMaxDist(Z, n, r)]

\* number of flat clusters when every subtree with MC <= thresh is a cluster
RECURSIVE CountClusters(_, _, _, _, _)
CountClusters(Z, MC, n, node, thresh) ==
    IF node <= n THEN 1
    ELSE IF FracLeq(MC[node - n], thresh) THEN 1
    ELSE CountClusters(Z, MC, n, Z[node - n][1], thresh)
         + CountClusters(Z, MC, n, Z[node - n][2], thresh)

\* cluster_maxclust_monocrit: the bisection over the rows of Z.  Rows are
\* indexed from 1 here, so the library's lower_idx = 0, upper_idx = n - 1
\* are 1 and n.
RECURSIVE Bisect(_, _, _, _, _, _)
Bisect(Z, MC, n, max_nc, lower, upper) ==
    IF upper - lower <= 1 THEN upper
    ELSE LET i == ((lower + upper - 2) \div 2) + 1
             nc == CountClusters(Z, MC, n, 2 * n - 1, MC[i])
         IN  IF nc > max_nc
             THEN Bisect(Z, MC, n, max_nc, i, upper)
             ELSE Bisect(Z, MC, n, max_nc, lower, i)

\* The cut-off thresholds fcluster(criterion='maxclust') can end with: the
\* documented one (the smallest merge height that leaves no more than max_nc
\* flat clusters) and the one the library's bisection stops at.  With two
\* observations the bisection does not run and max_dists[upper_idx] is an
\* entry that was never written: it may lie below or above the merge height.
Cutoffs(Z, MC, n, max_nc) ==
    LET legal(t) == CountClusters(Z, MC, n, 2 * n - 1, t) <= max_nc
        heights == {MC[r] : r \in 1..Len(MC)}
        documented == {t \in heights :
                          /\ legal(t)
                          /\ \A u \in heights : legal(u) => FracLeq(t, u)}
        u == Bisect(Z, MC, n, max_nc, 1, n)
        bisected == IF u \in 1..Len(MC) THEN {MC[u]}
                    ELSE {<<-1, 1>>, MC[Len(MC)]}
    IN  documented \cup bisected

\* cluster_monocrit: number the flat clusters in the order of the library's
\* traversal (inner left child, inner right child, then the leaves)
RECURSIVE Visit(_, _, _, _, _, _, _)
Visit(Z, MC, n, cutoff, node, inside, st) ==
    LET r == node - n
        lc == Z[r][1]
        rc == Z[r][2]
        leader == ~inside /\ FracLeq(MC[r], cutoff)
        in == inside \/ leader
        s0 == IF leader THEN [st EXCEPT !.nc = st.nc + 1] ELSE st
        s1 == IF lc > n THEN Visit(Z, MC, n, cutoff, lc, in, s0) ELSE s0
        s2 == IF rc > n THEN Visit(Z, MC, n, cutoff, rc, in, s1) ELSE s1
        leaf(c, s) ==
            IF c > n THEN s
            ELSE LET num == IF in THEN s.nc ELSE s.nc + 1
                 IN  [T |-> [s.T EXCEPT ![c] = num], nc |-> num]
    IN  leaf(rc, leaf(lc, s2))

\* fcluster(Z, t, criterion='maxclust') for one cut-off
FlatClusters(Z, n, cutoff) ==
    Visit(Z, MaxDists(Z, n), n, cutoff, 2 * n - 1, FALSE,
          [T |-> [i \in 1..n |-> 0], nc |-> 0]).T

FinalLabelsByDistance(d, max_nc) ==
    { FlatClusters(Z, Len(d), <<max_nc, 1>>) : Z \in Linkage(d) }

\* the label vectors linkage + fcluster can return for a distance matrix
FinalLabels(d, max_nc) ==
    UNION { { FlatClusters(Z, Len(d), c)
              : c \in Cutoffs(Z, MaxDists(Z, Len(d)), Len(d), max_nc) }
            : Z \in Linkage(d) }

\* ------------------------------------------------------------------------
\* _save_final_csv
\* ------------------------------------------------------------------------

ScoreColumnAveraged(outlier_scores, n) ==
    [h \in 1..Len(outlier_scores) |-> outlier_scores[h] \div n]

\* 'avg': outlier_scores
ScoreColumn(outlier_scores, n) == outlier_scores

FrameLabelsReversed(ips, labels, scores) ==
    [i \in 1..Len(ips) |->
        [idx |-> i - 1, ip |-> ips[i],
         label |-> labels[Len(ips) - i + 1], avg |-> scores[i]]]

\* pd.DataFrame({'ip': ..., 'label': ..., 'avg': ...}); idx is the index
Frame(ips, labels, scores) ==
    [i \in 1..Len(ips) |->
        [idx |-> i - 1, ip |-> ips[i], label |-> labels[i], avg |-> scores[i]]]

InOrderAscending(a, b) == a <= b

\* ascending=False
InOrder(a, b) == a >= b

\* df.sort_values('avg', ascending=False): the orders a sort that need not be
\* stable can leave the rows in
SortedFrames(df) ==
    LET n == Len(df)
        perms == {p \in [1..n -> 1..n] : \A i, j \in 1..n : i # j => p[i] # p[j]}
    IN  { [i \in 1..n |-> df[p[i]]]
          : p \in {q \in perms :
                     \A i \in 1..(n - 1) : InOrder(df[q[i]].avg, df[q[i + 1]].avg)} }

\* json.dump({'ip': 'object', 'label': 'int64', 'avg': 'float64'}, f)
TypesSidecar == [ip |-> "object", label |-> "int64", avg |-> "float64"]

\* squareform or linkage raises: the exception leaves post_process
finalize_error ==
    /\ pc = "co_built"
    /\ LET d == DistMatrix(co_matrix)
       IN  \/ ~IsSymmetric(d) /\ UNCHANGED linkage_called
           \/ IsSymmetric(d) /\ TooFewObservations(n_samples)
              /\ linkage_called' = TRUE
    /\ pc' = "error"
    /\ UNCHANGED <<facadeVars, stageVars, first_pass,
                   inputVars, host_list, fitVars, run_files,
                   mapped_partitions, outlier_vector, run_idx, co_matrix,
                   final_labels_, sorted_csv, types_json>>

finalize ==
    /\ pc = "co_built"
    /\ LET d == DistMatrix(co_matrix)
       IN  /\ IsSymmetric(d)
           /\ ~TooFewObservations(n_samples)
           /\ \E labels \in FinalLabels(d, base_k) :
                /\ final_labels_' = labels
                /\ \E df \in SortedFrames(
                        Frame(host_list, labels,
                              ScoreColumn(outlier_vector, n_partitions))) :
                      sorted_csv' = File(df)
    /\ linkage_called' = TRUE
    /\ types_json' = File(TypesSidecar)
    /\ pc' = "done"
    /\ UNCHANGED <<facadeVars, stageVars, first_pass,
                   inputVars, host_list, fitVars, run_files,
                   mapped_partitions, outlier_vector, run_idx, co_matrix>>

\* ------------------------------------------------------------------------
\* ClusteringStage.execute
\* ------------------------------------------------------------------------

\* what the stage sees of the strategy: post_process returned, so the stage
\* prints "--- Finished ... ---", or an exception reached its except clause
StrategyOutcome ==
    CASE pc \in {"returned", "done"} -> "finished"
      [] pc = "error" -> "failed"
      [] OTHER -> "running"

Next ==
    \/ load_data
    \/ load_data_fail
    \/ fit_predict_begin
    \/ fit_skip_mask
    \/ fit_load_mask
    \/ fit_load_fail
    \/ fit_skip_k
    \/ fit_run_ok
    \/ fit_run_fail
    \/ fit_predict_end
    \/ save_results
    \/ save_results_fail
    \/ save_results_write_fail
    \/ post_process_begin
    \/ reconcile_member
    \/ build_co_matrix
    \/ finalize_error
    \/ finalize

Spec == Init /\ [][Next]_vars

\* ------------------------------------------------------------------------
\* post_process called a second time on the same object
\* ------------------------------------------------------------------------

\* the call after a completed one: lines 124-142 run again; first_pass keeps
\* the label matrix and the outlier vector of the completed call
post_process_again ==
    /\ pc = "done"
    /\ ~first_pass.called
    /\ first_pass' = [called |-> TRUE,
                      mapped_partitions |-> mapped_partitions,
                      outlier_vector |-> outlier_vector]
    /\ co_matrix' = Zeros(n_samples, n_samples)
    /\ outlier_vector' = FreshScores(n_samples)
    /\ mapped_partitions' = Zeros(n_partitions, n_samples)
    /\ run_idx' = 1
    /\ pc' = "reconcile"
    /\ UNCHANGED <<facadeVars, stageVars, inputVars, host_list, fitVars,
                   run_files, outVars>>

\* configurations of two or more levels
InitAgain == Init /\ Len(EAC_MASKS) >= 2

NextAgain == Next \/ post_process_again

SpecAgain == InitAgain /\ [][NextAgain]_vars

\* ------------------------------------------------------------------------
\* A base partitioner that labels units it takes for noise with -1
\* ------------------------------------------------------------------------

\* the cluster id of a noise unit
NoiseLabel == -1

\* model.labels_ with one noise unit or more
NoiseLabelings(rows) ==
    {l \in [1..rows -> PartitionerLabels \cup {NoiseLabel}] :
        \E r \in 1..rows : l[r] = NoiseLabel}

\* model.fit(data) succeeds and model.labels_ holds noise labels
fit_run_noise ==
    /\ pc = "fit"
    /\ mask_idx <= Len(EAC_MASKS)
    /\ k_idx \in 1..3
    /\ ~SkipK(k_values[k_idx])
    /\ LET mask == EAC_MASKS[mask_idx]
           k == k_values[k_idx]
           samples == store[mask].samples
           rows == store[mask].rows
       IN  \E labels \in NoiseLabelings(rows),
              dists \in PartitionerDistances(rows) :
               /\ ensemble_results' = Collect(ensemble_results,
                      [mask |-> mask, k |-> k,
                       labels |-> DictZip(samples, labels),
                       distances |-> DictZip(samples, dists)])
               /\ invocations' = Append(invocations, <<mask, k, TRUE>>)
    /\ k_idx' = NextK(k_idx)
    /\ mask_idx' = NextMask(mask_idx, k_idx)
    /\ UNCHANGED <<facadeVars, stageVars, first_pass,
                   pc, inputVars, host_list, run_files, postVars>>

\* configurations of exactly two levels
InitNoise == Init /\ Len(EAC_MASKS) = 2

NextNoise == Next \/ fit_run_noise

SpecNoise == InitNoise /\ [][NextNoise]_vars

\* ------------------------------------------------------------------------
\* AnalysisFacade and the stages of the pipeline
\* ------------------------------------------------------------------------

\* self.pipeline after _register_stages
Stages == <<"PreprocessingStage", "FeatureEngineeringStage",
            "TimeSeriesGenerationStage", "DataReformattingStage",
            "ClusteringStage", "EvaluationStage">>

\* a loop that goes on after the handler
StageInTurn(name) ==
    /\ stage_idx <= Len(Stages)
    /\ Stages[stage_idx] = name

\* for stage in self.pipeline: the stage whose turn it is
CurrentStage(name) ==
    /\ ~halted
    /\ stage_idx <= Len(Stages)
    /\ Stages[stage_idx] = name

\* self.context = stage.execute(self.context): the stage set keys in the
\* dict it was given and returned it
StageReturns(name, keys) ==
    /\ CurrentStage(name)
    /\ context' = context \cup keys
    /\ returned' = context \cup keys
    /\ executed' = Append(executed, name)
    /\ stage_idx' = stage_idx + 1
    /\ UNCHANGED halted

\* except Exception: ... return; the stage set keys in the dict it was given
\* before it raised, and self.context is that dict
StageRaises(name, keys) ==
    /\ CurrentStage(name)
    /\ context' = context \cup keys
    /\ halted' = TRUE
    /\ executed' = Append(executed, name)
    /\ UNCHANGED <<returned, stage_idx>>

preprocessing ==
    /\ StageReturns("PreprocessingStage", {"preprocessing_complete"})
    /\ UNCHANGED <<stageVars, clustererVars>>

\* one of the four tasks raises
preprocessing_raise ==
    /\ StageRaises("PreprocessingStage", {})
    /\ UNCHANGED <<stageVars, clustererVars>>

\* no '*_filtered.csv' file, or none that can be read: return context
feature_engineering_no_input ==
    /\ StageReturns("FeatureEngineeringStage", {})
    /\ UNCHANGED <<stageVars, clustererVars>>

feature_engineering ==
    /\ StageReturns("FeatureEngineeringStage",
                    {"timeseries_start", "feature_engineering_complete"})
    /\ UNCHANGED <<stageVars, clustererVars>>

\* an exception before line 42 (concat, astype) or after it (the loop over
\* config.EAC_MASKS)
feature_engineering_raise ==
    /\ \E keys \in {{}, {"timeseries_start"}} :
          StageRaises("FeatureEngineeringStage", keys)
    /\ UNCHANGED <<stageVars, clustererVars>>

\* raise ValueError("... 'timeseries_start' not found in context ...")
timeseries_no_start_returns ==
    /\ "timeseries_start" \notin context
    /\ StageReturns("TimeSeriesGenerationStage", {})
    /\ UNCHANGED <<stageVars, clustererVars>>

timeseries_no_start ==
    /\ "timeseries_start" \notin context
    /\ StageRaises("TimeSeriesGenerationStage", {})
    /\ UNCHANGED <<stageVars, clustererVars>>

\* no feature file: return context
timeseries_no_features ==
    /\ "timeseries_start" \in context
    /\ StageReturns("TimeSeriesGenerationStage", {})
    /\ UNCHANGED <<stageVars, clustererVars>>

timeseries ==
    /\ "timeseries_start" \in context
    /\ StageReturns("TimeSeriesGenerationStage",
                    {"timeseries_generation_complete"})
    /\ UNCHANGED <<stageVars, clustererVars>>

\* an exception outside the try of the loop over the feature files
timeseries_raise ==
    /\ "timeseries_start" \in context
    /\ StageRaises("TimeSeriesGenerationStage", {})
    /\ UNCHANGED <<stageVars, clustererVars>>

\* the timeseries dictionary is empty: return context
reformatting_empty ==
    /\ StageReturns("DataReformattingStage", {})
    /\ UNCHANGED <<stageVars, clustererVars>>

reformatting ==
    /\ StageReturns("DataReformattingStage", {"reformatting_complete"})
    /\ UNCHANGED <<stageVars, clustererVars>>

reformatting_raise ==
    /\ StageRaises("DataReformattingStage", {})
    /\ UNCHANGED <<stageVars, clustererVars>>

\* ClustererFactory._creators
Creators == {"kkmeans", "ksom", "rfcm"}

\* the names config.CLUSTERING_MODELS is drawn from
ModelNames == Creators \cup {"dbscan"}

MaxModels == 2

ModelLists == UNION {[1..n -> ModelNames] : n \in 0..MaxModels}

\* the calls on the clusterer, lines 28-31
StrategyCalls == <<"load_data", "fit_predict", "save_results", "post_process">>

\* the call after c, "create" after the last one
CallAfter(c) ==
    LET i == CHOOSE j \in 1..Len(StrategyCalls) : StrategyCalls[j] = c
    IN  IF i = Len(StrategyCalls) THEN "create" ELSE StrategyCalls[i + 1]

\* print("Executing Clustering Stage...")
clustering_begin ==
    /\ CurrentStage("ClusteringStage")
    /\ step = "idle"
    /\ executed' = Append(executed, "ClusteringStage")
    /\ model_idx' = 1
    /\ step' = "create"
    /\ UNCHANGED <<stage_idx, halted, context, returned, models_to_run, calls,
                   clustererVars>>

\* inside: for model_name in self.models_to_run
InLoop ==
    /\ CurrentStage("ClusteringStage")
    /\ step # "idle"
    /\ model_idx <= Len(models_to_run)

\* clusterer = self.factory.create_clusterer(model_name, params)
create_clusterer ==
    /\ InLoop
    /\ step = "create"
    /\ models_to_run[model_idx] \in Creators
    /\ calls' = Append(calls, <<model_idx, "create_clusterer", "ok">>)
    /\ step' = "load_data"
    /\ UNCHANGED <<facadeVars, models_to_run, model_idx, clustererVars>>

\* raise ValueError(f"Unknown model strategy: {model_name}"); continue
create_clusterer_unknown ==
    /\ InLoop
    /\ step = "create"
    /\ models_to_run[model_idx] \notin Creators
    /\ calls' = Append(calls, <<model_idx, "create_clusterer", "raised">>)
    /\ model_idx' = model_idx + 1
    /\ UNCHANGED <<facadeVars, models_to_run, step, clustererVars>>

\* one of the calls of lines 28-31 returns
strategy_call ==
    /\ InLoop
    /\ step \notin {"idle", "create"}
    /\ calls' = Append(calls, <<model_idx, step, "ok">>)
    /\ step' = CallAfter(step)
    /\ model_idx' = IF CallAfter(step) = "create"
                    THEN model_idx + 1 ELSE model_idx
    /\ UNCHANGED <<facadeVars, models_to_run, clustererVars>>

\* an exception that leaves execute
strategy_call_abort ==
    /\ InLoop
    /\ step \notin {"idle", "create"}
    /\ calls' = Append(calls, <<model_idx, step, "raised">>)
    /\ halted' = TRUE
    /\ UNCHANGED <<stage_idx, context, returned, executed, models_to_run,
                   model_idx, step, clustererVars>>

\* one of the calls of lines 28-31 raises: except Exception ... continue
strategy_call_raise ==
    /\ InLoop
    /\ step \notin {"idle", "create"}
    /\ calls' = Append(calls, <<model_idx, step, "raised">>)
    /\ model_idx' = model_idx + 1
    /\ step' = "create"
    /\ UNCHANGED <<facadeVars, models_to_run, clustererVars>>

\* context['clustering_complete'] = True; return context
clustering_end ==
    /\ CurrentStage("ClusteringStage")
    /\ step = "create"
    /\ model_idx > Len(models_to_run)
    /\ context' = context \cup {"clustering_complete"}
    /\ returned' = context \cup {"clustering_complete"}
    /\ stage_idx' = stage_idx + 1
    /\ model_idx' = 0
    /\ step' = "idle"
    /\ UNCHANGED <<halted, executed, models_to_run, calls, clustererVars>>

\* the list of samples cannot be loaded: return context
evaluation_no_samples ==
    /\ StageReturns("EvaluationStage", {})
    /\ UNCHANGED <<stageVars, clustererVars>>

evaluation ==
    /\ StageReturns("EvaluationStage", {"evaluation_complete"})
    /\ UNCHANGED <<stageVars, clustererVars>>

\* the ground truth or the plot raises
evaluation_raise ==
    /\ StageRaises("EvaluationStage", {})
    /\ UNCHANGED <<stageVars, clustererVars>>

\* no clusterer has been created
NoClusterer ==
    /\ pc = "new"
    /\ host_file = NoFile
    /\ EAC_MASKS = <<>>
    /\ base_k = 2
    /\ store = <<>>
    /\ missing = {}
    /\ host_list = <<>>
    /\ ensemble_results = <<>>
    /\ mask_idx = 0
    /\ k_idx = 0
    /\ invocations = <<>>
    /\ run_files = <<>>
    /\ mapped_partitions = <<>>
    /\ outlier_vector = <<>>
    /\ run_idx = 0
    /\ co_matrix = <<>>
    /\ linkage_called = FALSE
    /\ final_labels_ = <<>>
    /\ sorted_csv = NoFile
    /\ types_json = NoFile
    /\ first_pass = NoPass

InitPipeline ==
    /\ FacadeNew
    /\ models_to_run \in ModelLists
    /\ NoClusterer

\* run_analysis
NextPipeline ==
    \/ preprocessing
    \/ preprocessing_raise
    \/ feature_engineering_no_input
    \/ feature_engineering
    \/ feature_engineering_raise
    \/ timeseries_no_start
    \/ timeseries_no_features
    \/ timeseries
    \/ timeseries_raise
    \/ reformatting_empty
    \/ reformatting
    \/ reformatting_raise
    \/ clustering_begin
    \/ create_clusterer
    \/ create_clusterer_unknown
    \/ strategy_call
    \/ strategy_call_raise
    \/ clustering_end
    \/ evaluation_no_samples
    \/ evaluation
    \/ evaluation_raise

SpecPipeline == InitPipeline /\ [][NextPipeline]_vars

\* ------------------------------------------------------------------------
\* Properties
\* ------------------------------------------------------------------------

Hosts == 1..n_samples

Members == 1..n_partitions

\* the co-association matrix has been computed
CoBuilt == pc \in {"co_built", "done"}

\* fit_predict has returned
FitDone == pc \in {"fitted", "saved", "returned", "reconcile", "co_built", "done"}

\* host h's key at member j's level is not in member j's maps
Absent(h, j) ==
    HostKey(host_list[h], ensemble_results[j].mask)
        \notin DOMAIN ensemble_results[j].labels

\* members in which hosts i and k carry equal labels, neither the sentinel
Agreeing(i, k) ==
    {j \in Members :
        /\ mapped_partitions[j][i] = mapped_partitions[j][k]
        /\ mapped_partitions[j][i] # -1
        /\ mapped_partitions[j][k] # -1}

\* a / b = c / d for fractions <<a, b>> and <<c, d>> with b, d > 0
SameValue(x, y) == x[2] > 0 /\ y[2] > 0 /\ x[1] * y[2] = y[1] * x[2]

ScenarioAMatrix ==
    << << <<1, 1>>, <<1, 2>>, <<0, 1>> >>,
       << <<1, 2>>, <<1, 1>>, <<1, 2>> >>,
       << <<0, 1>>, <<1, 2>>, <<1, 1>> >> >>

\* C1: every co-association entry [i,k] is (number of members in which hosts
\* i and k have equal, non-sentinel labels) / M, M being the number of all
\* members; members {h1:0,h2:0,h3:1} and {h1:0,h2:1,h3:1} give
\* [[1,.5,0],[.5,1,.5],[0,.5,1]].
C1_CoAssociationIsAgreementOverM ==
    CoBuilt =>
        /\ \A i \in Hosts : \A k \in Hosts :
              SameValue(co_matrix[i][k],
                        <<Cardinality(Agreeing(i, k)), n_partitions>>)
        /\ mapped_partitions = <<<<0, 0, 1>>, <<0, 1, 1>>>>
              => co_matrix = ScenarioAMatrix

C1_Witness ==
    /\ CoBuilt
    /\ mapped_partitions = <<<<0, 0, 1>>, <<0, 1, 1>>>>
    /\ co_matrix = ScenarioAMatrix

\* members in which host i has a label other than the sentinel
Covering(i) == {j \in Members : mapped_partitions[j][i] # -1}

\* C2 as stated: every diagonal entry of the co-association matrix is 1,
\* also for a host that is sentinel in some or all members.
C2_DiagonalIsOne ==
    CoBuilt => \A i \in Hosts : co_matrix[i][i] = <<1, 1>>

\* C2 amended: the diagonal entry of host i is (number of members in which
\* host i is not sentinel) / M; it is 1 exactly when host i is not sentinel
\* in any member.
C2_DiagonalIsCoverageOverM ==
    CoBuilt =>
        \A i \in Hosts :
            /\ SameValue(co_matrix[i][i],
                         <<Cardinality(Covering(i)), n_partitions>>)
            /\ co_matrix[i][i] = <<1, 1>> <=> Covering(i) = Members

C2_Witness ==
    /\ CoBuilt
    /\ \E i \in Hosts : co_matrix[i][i] = <<1, 2>>
    /\ \E i \in Hosts : co_matrix[i][i] = <<1, 1>>

\* C3: the co-association matrix is symmetric, sentinel entries or not.
C3_CoAssociationSymmetric ==
    CoBuilt =>
        \A i \in Hosts : \A k \in Hosts : co_matrix[i][k] = co_matrix[k][i]

C3_Witness ==
    /\ CoBuilt
    /\ \E j \in Members : \E h \in Hosts : mapped_partitions[j][h] = -1
    /\ \E i \in Hosts : \E k \in Hosts :
          i # k /\ co_matrix[i][k] # <<0, 1>> /\ co_matrix[i][k] # <<1, 1>>

\* reconciling member run_idx: a host whose key the member lacks gets the
\* sentinel and keeps its outlier score
C4_ReconcileStep ==
    (pc = "reconcile" /\ run_idx <= n_partitions /\ run_idx' = run_idx + 1) =>
        \A h \in Hosts :
            Absent(h, run_idx) =>
                /\ mapped_partitions'[run_idx][h] = -1
                /\ outlier_vector'[h] = outlier_vector[h]

\* every co-association entry of a host that member j lacks is the agreement
\* count over the members other than j, divided by M
C4_NoCoAssociation ==
    CoBuilt =>
        \A j \in Members : \A h \in Hosts :
            Absent(h, j) =>
                /\ mapped_partitions[j][h] = -1
                /\ \A k \in Hosts :
                      LET others == <<Cardinality(Agreeing(h, k) \ {j}),
                                      n_partitions>>
                      IN  /\ SameValue(co_matrix[h][k], others)
                          /\ SameValue(co_matrix[k][h], others)

\* C4: when host h's key is absent from member j's coverage, reconciling
\* member j writes the sentinel at (h, j) and leaves h's outlier score as it
\* was, and member j is counted in no co-association entry of h, (h, h)
\* included.
C4_SentinelPropagation ==
    [][C4_ReconcileStep]_vars /\ []C4_NoCoAssociation

C4_Witness ==
    /\ CoBuilt
    /\ \E h \in Hosts :
          /\ \E j \in Members : Absent(h, j)
          /\ \E j \in Members : ~Absent(h, j)
          /\ outlier_vector[h] > 0
          /\ co_matrix[h][h] # <<0, 1>>

\* the sum of the distances of host h's keys over members 1..j that have
\* the key
RECURSIVE CoveredDistance(_, _)
CoveredDistance(h, j) ==
    IF j = 0 THEN 0
    ELSE LET res == ensemble_results[j]
             key == HostKey(host_list[h], res.mask)
         IN  CoveredDistance(h, j - 1)
             + (IF key \in DOMAIN res.distances THEN res.distances[key] ELSE 0)

AllReconciled ==
    \/ pc = "reconcile" /\ run_idx > n_partitions
    \/ CoBuilt

\* C5: once all M members are processed, host i's outlier score is the sum
\* of the distances of the members that have host i's key, and the output
\* table carries exactly this sum for host i.
C5_OutlierIsRawSum ==
    /\ AllReconciled =>
          \A h \in Hosts : outlier_vector[h] = CoveredDistance(h, n_partitions)
    /\ pc = "done" =>
          /\ Len(sorted_csv.content) = n_samples
          /\ \A r \in 1..Len(sorted_csv.content) :
                LET row == sorted_csv.content[r]
                IN  /\ row.ip = host_list[row.idx + 1]
                    /\ row.avg = CoveredDistance(row.idx + 1, n_partitions)

C5_Witness ==
    /\ pc = "done"
    /\ n_partitions = 3
    /\ \E r \in 1..Len(sorted_csv.content) :
          /\ sorted_csv.content[r].avg = 2
          /\ \E j \in Members : Absent(sorted_csv.content[r].idx + 1, j)

\* C6: while the members are reconciled one after the other, no host's
\* accumulated outlier score ever decreases.
C6_OutlierMonotone ==
    [][pc = "reconcile" =>
          \A h \in Hosts : outlier_vector'[h] >= outlier_vector[h]]_vars

C6_Witness ==
    /\ pc = "reconcile"
    /\ run_idx = 3
    /\ \E h \in Hosts : outlier_vector[h] = 2
    /\ \E h \in Hosts : outlier_vector[h] = 0

\* (level, k) combinations
MemberKeys == {<<ensemble_results[j].mask, ensemble_results[j].k>> : j \in Members}

MembersKeyed(m, k) ==
    {j \in Members : ensemble_results[j].mask = m /\ ensemble_results[j].k = k}

InvocationsOf(m, k) ==
    {n \in 1..Len(invocations) : invocations[n][1] = m /\ invocations[n][2] = k}

DistinctMasks ==
    \A i, j \in 1..Len(EAC_MASKS) : i # j => EAC_MASKS[i] # EAC_MASKS[j]

\* C7: the partitioner is never invoked with k < 2; over distinct levels,
\* after fit_predict every present level and every k >= 2 of k0-1, k0, k0+1
\* has exactly one invocation and, if that succeeded, exactly one member
\* keyed (level, k), otherwise none; no key occurs twice and M <= 3 * levels.
C7_OneMemberPerLevelAndK ==
    /\ \A n \in 1..Len(invocations) : invocations[n][2] >= 2
    /\ (FitDone /\ DistinctMasks) =>
          /\ \A i \in 1..Len(EAC_MASKS) : \A ki \in 1..3 :
                LET m == EAC_MASKS[i]
                    k == k_values[ki]
                IN  IF m \notin missing /\ k >= 2
                    THEN /\ Cardinality(InvocationsOf(m, k)) = 1
                         /\ \A n \in InvocationsOf(m, k) :
                               Cardinality(MembersKeyed(m, k)) =
                                   (IF invocations[n][3] THEN 1 ELSE 0)
                    ELSE /\ InvocationsOf(m, k) = {}
                         /\ MembersKeyed(m, k) = {}
          /\ Cardinality(MemberKeys) = n_partitions
          /\ n_partitions <= 3 * Len(EAC_MASKS)

C7_Witness ==
    /\ pc = "fitted"
    /\ base_k = 2
    /\ n_partitions = 2
    /\ Len(invocations) = 2

\* after fit_predict: nothing belongs to a missing level, every other level
\* has been run for each k >= 2
C8_Result ==
    FitDone =>
        \A i \in 1..Len(EAC_MASKS) :
            LET m == EAC_MASKS[i]
            IN  IF m \in missing
                THEN /\ \A j \in Members : ensemble_results[j].mask # m
                     /\ \A n \in 1..Len(invocations) : invocations[n][1] # m
                ELSE \A ki \in 1..3 :
                        k_values[ki] >= 2 =>
                            \E n \in 1..Len(invocations) :
                                /\ invocations[n][1] = m
                                /\ invocations[n][2] = k_values[ki]

AtMissingLevel ==
    /\ pc = "fit"
    /\ k_idx = 0
    /\ mask_idx <= Len(EAC_MASKS)
    /\ EAC_MASKS[mask_idx] \in missing

C8_SkipStep ==
    AtMissingLevel =>
        /\ pc' = "fit"
        /\ mask_idx' = mask_idx + 1
        /\ k_idx' = 0
        /\ ensemble_results' = ensemble_results
        /\ invocations' = invocations

\* C8: at a level whose data is missing fit_predict does not fail but moves
\* on to the next level with the members unchanged; when it returns, no
\* member and no invocation belongs to a missing level and every other
\* configured level, before or after it, has been run for each k >= 2.
C8_MissingLevelSkipped ==
    [][C8_SkipStep]_vars /\ []C8_Result

C8_Witness ==
    /\ pc = "fitted"
    /\ EAC_MASKS = <<16, 24, 32>>
    /\ missing = {24}
    /\ n_partitions = 2

\* the number of (level, k >= 2) combinations of the levels that are present
RECURSIVE RunsDue(_)
RunsDue(i) ==
    IF i = 0 THEN 0
    ELSE RunsDue(i - 1)
         + (IF EAC_MASKS[i] \in missing THEN 0
            ELSE Cardinality({ki \in 1..3 : k_values[ki] >= 2}))

\* a step that records a failed partitioner call
C9_FailureStep ==
    (Len(invocations') = Len(invocations) + 1
        /\ ~invocations'[Len(invocations')][3]) =>
            /\ ensemble_results' = ensemble_results
            /\ pc' = "fit"
            /\ k_idx' = NextK(k_idx)
            /\ mask_idx' = NextMask(mask_idx, k_idx)

C10_EmptyEnsembleNoOutput ==
    (FitDone /\ n_partitions = 0) =>
        /\ pc \in {"fitted", "saved", "returned"}
        /\ mapped_partitions = <<>>
        /\ co_matrix \in {<<>>, Zeros(n_samples, n_samples)}
        /\ ~linkage_called
        /\ ~sorted_csv.written
        /\ ~types_json.written
        /\ final_labels_ = <<>>

C10_Witness ==
    /\ pc = "returned"
    /\ n_samples = 3
    /\ Len(invocations) = 2
    /\ \A n \in 1..Len(invocations) : ~invocations[n][3]

\* post_process has been entered and has returned or raised
PostProcessLeft == pc \in {"returned", "done"} \/ (pc = "error" /\ run_idx > 0)

\* C11: when post_process is reached with zero members, the strategy ends in
\* an error that reaches ClusteringStage, which therefore does not see it as a
\* finished strategy.
C11_EmptyEnsembleIsError ==
    (PostProcessLeft /\ n_partitions = 0) => StrategyOutcome = "failed"

\* the finalizing part of post_process (lines 188-205) has returned or raised
FinalizerLeft == pc \in {"done", "error"} /\ run_idx > n_partitions

\* every entry of the distance matrix is zero
Degenerate(d) ==
    \A i \in 1..Len(d) : \A k \in 1..Len(d) : d[i][k][1] = 0

\* C12: with fewer than two hosts, or with all distances zero, post_process
\* ends in an error without having called linkage and without an output table.
C12_DegenerateIsError ==
    (FinalizerLeft /\ (n_samples < 2 \/ Degenerate(DistMatrix(co_matrix)))) =>
        /\ pc = "error"
        /\ ~linkage_called
        /\ ~sorted_csv.written

\* the rows of the output table
Table == sorted_csv.content

\* C13: in the table _save_final_csv writes, the score of every row is greater
\* than or equal to the score of the row after it.
C13_RowsDescendByScore ==
    pc = "done" =>
        \A r \in 1..(Len(Table) - 1) : Table[r].avg >= Table[r + 1].avg

C13_Witness ==
    /\ pc = "done"
    /\ Len(Table) = 3
    /\ Table[1].idx # 0
    /\ Table[1].avg > Table[2].avg
    /\ Table[2].avg > Table[3].avg

\* C14: the table has one row per canonical index, every host is in exactly
\* one row, and a row holds the host, the consensus label and the outlier
\* score of one and the same canonical index.
C14_TableIsAlignedPermutation ==
    pc = "done" =>
        /\ Len(Table) = n_samples
        /\ \A h \in Hosts :
              /\ Cardinality({r \in 1..Len(Table) : Table[r].idx = h - 1}) = 1
              /\ Cardinality({r \in 1..Len(Table) : Table[r].ip = host_list[h]}) = 1
        /\ \A r \in 1..Len(Table) :
              /\ Table[r].ip = host_list[Table[r].idx + 1]
              /\ Table[r].label = final_labels_[Table[r].idx + 1]
              /\ Table[r].avg = outlier_vector[Table[r].idx + 1]

C14_Witness ==
    /\ pc = "done"
    /\ Len(Table) = 3
    /\ Table[1].idx = 2
    /\ Table[1].label # Table[2].label
    /\ Table[1].avg > Table[2].avg
    /\ final_labels_[1] # final_labels_[3]

\* once load_data has run, no step changes the canonical host list
C15_KeepStep == pc # "new" => host_list' = host_list

\* C15: load_data sets the canonical host list to the lines of the finest
\* level's unit list, in file order, and fit_predict, save_results and
\* post_process leave it as it is, also when members fail.
C15_HostListFixed ==
    /\ [][C15_KeepStep]_vars
    /\ []((pc # "new" /\ host_file.written) => host_list = host_file.content)

C15_Witness ==
    /\ pc = "done"
    /\ host_list = <<h1, h3, hbad>>
    /\ host_list = host_file.content
    /\ \E n \in 1..Len(invocations) : ~invocations[n][3]
    /\ \E j \in Members : \E h \in Hosts : mapped_partitions[j][h] = -1

\* reconciling a member of the finest level: a host that is one of the
\* member's units gets the member's label for it, and the member's distance
\* for it is added to its score
C16_FinestStep ==
    (/\ pc = "reconcile" /\ run_idx <= n_partitions /\ run_idx' = run_idx + 1
     /\ ensemble_results[run_idx].mask = 32) =>
        \A h \in Hosts :
            host_list[h] \in DOMAIN ensemble_results[run_idx].labels =>
                /\ mapped_partitions'[run_idx][h] =
                      ensemble_results[run_idx].labels[host_list[h]]
                /\ outlier_vector'[h] =
                      outlier_vector[h]
                          + ensemble_results[run_idx].distances[host_list[h]]

\* C16: for a member at mask 32 a host is looked up under its own identifier:
\* a host among the member's units gets exactly that member's label, and that
\* member's distance for the host is what is accumulated.
C16_FinestLevelIsIdentity == [][C16_FinestStep]_vars

C16_Witness ==
    /\ CoBuilt
    /\ n_samples = 3
    /\ host_list[3] = hbad
    /\ \E j \in Members :
          /\ ensemble_results[j].mask = 32
          /\ mapped_partitions[j] = <<0, 1, 1>>
          /\ ensemble_results[j].distances[hbad] = 1
    /\ outlier_vector[3] >= 1

\* host h's identifier is not a well-formed address
Malformed(h) == ~IsValidAddress(host_list[h].addr)

\* reconciling a member of a coarser level is one step that raises nothing:
\* a host whose key cannot be computed, or whose key the member lacks, gets
\* the sentinel and keeps its score; every other host gets the label of its
\* key
C17_CoarseStep ==
    (/\ pc = "reconcile" /\ run_idx <= n_partitions
     /\ ensemble_results[run_idx].mask # 32) =>
        /\ pc' = "reconcile"
        /\ run_idx' = run_idx + 1
        /\ \A h \in Hosts :
              IF Malformed(h) \/ Absent(h, run_idx)
              THEN /\ mapped_partitions'[run_idx][h] = -1
                   /\ outlier_vector'[h] = outlier_vector[h]
              ELSE mapped_partitions'[run_idx][h] =
                      ensemble_results[run_idx].labels[
                          HostKey(host_list[h], ensemble_results[run_idx].mask)]

\* C17: at a coarser level, a host whose key computation fails or whose key
\* is not among the member's units is marked -1 for that member, no error is
\* raised, and the other hosts and the following members are reconciled.
C17_CoarseKeyFailureIsSentinel ==
    /\ [][C17_CoarseStep]_vars
    /\ [](pc = "reconcile" => run_idx \in 1..(n_partitions + 1))

C17_Witness ==
    /\ CoBuilt
    /\ host_list = <<h1, h3, hbad>>
    /\ \E j \in Members : \E j2 \in Members :
          /\ j < j2
          /\ ensemble_results[j].mask = 24
          /\ mapped_partitions[j][1] # -1
          /\ mapped_partitions[j][2] = -1
          /\ mapped_partitions[j][3] = -1
          /\ ensemble_results[j2].mask = 32
          /\ mapped_partitions[j2][3] # -1

\* C18: for every host of the canonical list and every prefix length, the key
\* reconciliation looks the host up under is the unit identifier the feature
\* store files that host under (get_ip_network, then '/' replaced by '_'), so
\* a host that is filed under one of a member's units gets that unit's label
\* and never the sentinel.
C18_KeysMatchFeatureStore ==
    /\ pc = "loaded" =>
          \A h \in Hosts : \A mask \in 0..32 :
              FeatureStoreUnit(host_list[h], mask) # NoneKey =>
                  HostKey(host_list[h], mask)
                      = FeatureStoreUnit(host_list[h], mask)
    /\ CoBuilt =>
          \A j \in Members : \A h \in Hosts :
              LET unit == FeatureStoreUnit(host_list[h], ensemble_results[j].mask)
              IN  unit \in DOMAIN ensemble_results[j].labels =>
                      mapped_partitions[j][h] = ensemble_results[j].labels[unit]

C18_Witness ==
    /\ CoBuilt
    /\ host_list = <<h1, h2, h3>>
    /\ \E j \in Members :
          /\ ensemble_results[j].mask = 24
          /\ FeatureStoreUnit(h1, 24) = net24a
          /\ FeatureStoreUnit(h3, 24) = net24b
          /\ ensemble_results[j].labels[net24a] = 0
          /\ ensemble_results[j].labels[net24b] = 1
          /\ mapped_partitions[j] = <<0, 0, 1>>

\* a second call of post_process has reconciled every member
SecondPassReconciled ==
    first_pass.called /\ (CoBuilt \/ (pc = "reconcile" /\ run_idx > n_partitions))

\* C19: post_process run a second time on the same ensemble and host list
\* starts from a zero outlier vector and ends with the same label matrix
\* (sentinels included) and the same outlier vector as the first run: nothing
\* is added on top of the first run's scores.
C19_ReconciliationRepeatable ==
    /\ (first_pass.called /\ pc = "reconcile" /\ run_idx = 1) =>
          \A h \in Hosts : outlier_vector[h] = 0
    /\ SecondPassReconciled =>
          /\ mapped_partitions = first_pass.mapped_partitions
          /\ outlier_vector = first_pass.outlier_vector

C19_Witness ==
    /\ first_pass.called
    /\ pc = "done"
    /\ host_list = <<h1, h3, hbad>>
    /\ \E h \in Hosts : outlier_vector[h] >= 2
    /\ \E j \in Members : mapped_partitions[j] = <<0, -1, -1>>
    /\ outlier_vector = first_pass.outlier_vector

\* the (level, k) combinations in the order the loops of fit_predict visit
\* them: levels in configured order, for each level k0-1, k0, k0+1
Enumeration ==
    [p \in 1..(3 * Len(EAC_MASKS)) |->
        [mask |-> EAC_MASKS[((p - 1) \div 3) + 1],
         k |-> k_values[((p - 1) % 3) + 1]]]

\* members j, j+1, ... occur, in this order, among the combinations p, p+1, ...
RECURSIVE Embeds(_, _)
Embeds(j, p) ==
    IF j > n_partitions THEN TRUE
    ELSE IF p > Len(Enumeration) THEN FALSE
    ELSE IF /\ ensemble_results[j].mask = Enumeration[p].mask
            /\ ensemble_results[j].k = Enumeration[p].k
         THEN Embeds(j + 1, p + 1)
         ELSE Embeds(j, p + 1)

\* the position of mask m in the configured list
LevelIndex(m) == CHOOSE i \in 1..Len(EAC_MASKS) : EAC_MASKS[i] = m

\* member i comes before member j in (level position, k) order
KeyBefore(i, j) ==
    LET a == ensemble_results[i]
        b == ensemble_results[j]
    IN  \/ LevelIndex(a.mask) < LevelIndex(b.mask)
        \/ a.mask = b.mask /\ a.k < b.k

\* a step keeps the members collected so far, in their order, as the front of
\* the list; a failed call adds nothing
C20_CollectStep ==
    /\ Len(ensemble_results') >= Len(ensemble_results)
    /\ SubSeq(ensemble_results', 1, Len(ensemble_results)) = ensemble_results
    /\ (Len(invocations') = Len(invocations) + 1
        /\ ~invocations'[Len(invocations')][3]) =>
            ensemble_results' = ensemble_results

\* C20: the members are in the order of the loops, level by level in
\* configured order and k ascending within a level, so over distinct levels
\* the set of successful (level, k) combinations fixes the order; column j of
\* the label matrix is member j; a failed member leaves the order of the
\* others as it is.
C20_MemberOrder ==
    /\ [][C20_CollectStep]_vars
    /\ [](/\ Embeds(1, 1)
          /\ DistinctMasks =>
                \A i \in Members : \A j \in Members : i < j => KeyBefore(i, j)
          /\ CoBuilt =>
                \A j \in Members : \A h \in Hosts :
                    mapped_partitions[j][h] =
                        MappedLabel(ensemble_results[j],
                                    HostKey(host_list[h],
                                            ensemble_results[j].mask)))

C20_Witness ==
    /\ CoBuilt
    /\ EAC_MASKS = <<16, 24, 32>>
    /\ invocations = <<<<16, 2, TRUE>>, <<24, 2, FALSE>>, <<32, 2, TRUE>>>>
    /\ n_partitions = 2
    /\ ensemble_results[1].mask = 16
    /\ ensemble_results[2].mask = 32
    /\ mapped_partitions[1] = <<0, 0, -1>>
    /\ mapped_partitions[2] = <<0, 1, 1>>

\* the labels the final partition uses
FinalLabelSet == {final_labels_[h] : h \in Hosts}

\* post_process has finished for four hosts and a target of two clusters
FourHostsCutToTwo == pc = "done" /\ n_samples = 4 /\ base_k = 2

\* C21 as stated: for four hosts and k_target = 2 the final partition labels
\* all four hosts and uses exactly two distinct labels.
C21_ExactlyTwoLabels ==
    FourHostsCutToTwo =>
        /\ Len(final_labels_) = 4
        /\ Cardinality(FinalLabelSet) = 2

\* C21 amended: for four hosts and k_target = 2 the final partition labels
\* all four hosts with labels from 1..2, so it uses at most two distinct
\* labels; it uses exactly two when the last merge of the dendrogram is
\* strictly higher than the one before it, and one label when these two merges
\* have the same height.
C21_AtMostTwoLabels ==
    FourHostsCutToTwo =>
        /\ Len(final_labels_) = 4
        /\ \A h \in Hosts : final_labels_[h] \in 1..2
        /\ LET Zs == Linkage(DistMatrix(co_matrix))
           IN  /\ (\A Z \in Zs : FracLess(Z[2][3], Z[3][3]))
                      => Cardinality(FinalLabelSet) = 2
               /\ (\A Z \in Zs : Z[2][3] = Z[3][3])
                      => Cardinality(FinalLabelSet) = 1

C21_Witness ==
    /\ FourHostsCutToTwo
    /\ final_labels_[1] = final_labels_[2]
    /\ final_labels_[3] = final_labels_[4]
    /\ final_labels_[1] # final_labels_[3]
    /\ co_matrix[1][3] = <<1, 2>>

\* C22: the distance matrix given to squareform and linkage is 0 on the
\* diagonal for every host, also one that is sentinel in some member; off the
\* diagonal distance plus co-association is 1; the matrix is symmetric and
\* every entry lies in [0, 1].
C22_DistanceIsOneMinusCoAssociation ==
    pc = "co_built" =>
        LET d == DistMatrix(co_matrix)
        IN  /\ Len(d) = n_samples
            /\ \A i \in Hosts :
                  /\ d[i][i] = <<0, 1>>
                  /\ \A k \in Hosts :
                        /\ i # k => SameValue(FracAdd(d[i][k], co_matrix[i][k]),
                                              <<1, 1>>)
                        /\ d[i][k] = d[k][i]
                        /\ FracLeq(<<0, 1>>, d[i][k])
                        /\ FracLeq(d[i][k], <<1, 1>>)

C22_Witness ==
    /\ pc = "co_built"
    /\ n_samples = 3
    /\ co_matrix[3][3] = <<1, 2>>
    /\ co_matrix[1][2] = <<1, 2>>
    /\ DistMatrix(co_matrix)[1][2] = <<1, 2>>
    /\ DistMatrix(co_matrix)[3][3] = <<0, 1>>

\* a well-formed address as a number
AddrValue(a) == ((a[1] * 256 + a[2]) * 256 + a[3]) * 256 + a[4]

\* the address of host lies in the network the unit names
Contains(unit, host) ==
    /\ unit.kind = "net"
    /\ IsValidAddress(host.addr)
    /\ AddrValue(host.addr) \div Pow2(32 - unit.pfx)
          = AddrValue(unit.addr) \div Pow2(32 - unit.pfx)

\* hosts a and b lie in the same unit u of member j, a member of a coarser
\* level
SharedUnits(j, a, b) ==
    {u \in DOMAIN ensemble_results[j].labels :
        /\ ensemble_results[j].mask # 32
        /\ Contains(u, host_list[a])
        /\ Contains(u, host_list[b])}

\* reconciling a member of a coarser level gives two hosts of one of its
\* units the unit's label and adds the unit's distance to both scores
C23_SharedUnitStep ==
    (pc = "reconcile" /\ run_idx <= n_partitions /\ run_idx' = run_idx + 1) =>
        \A a \in Hosts : \A b \in Hosts :
            \A u \in SharedUnits(run_idx, a, b) :
                /\ mapped_partitions'[run_idx][a] = ensemble_results[run_idx].labels[u]
                /\ mapped_partitions'[run_idx][b] = ensemble_results[run_idx].labels[u]
                /\ outlier_vector'[a] - outlier_vector[a]
                      = ensemble_results[run_idx].distances[u]
                /\ outlier_vector'[b] - outlier_vector[b]
                      = ensemble_results[run_idx].distances[u]

C24_KeepStep ==
    pc \notin {"new", "loaded", "fit"} => ensemble_results' = ensemble_results

\* C24: save_results and post_process leave ensemble_results as fit_predict
\* left it (members, order, label and distance maps); the label matrix and
\* the outlier vector are functions of the members and the host list, and the
\* final partition has one label per host of that list.
C24_MembersImmutable ==
    /\ [][C24_KeepStep]_vars
    /\ [](CoBuilt =>
            /\ mapped_partitions =
                  [j \in Members |->
                      [h \in Hosts |->
                          MappedLabel(ensemble_results[j],
                                      HostKey(host_list[h],
                                              ensemble_results[j].mask))]]
            /\ outlier_vector =
                  [h \in Hosts |-> CoveredDistance(h, n_partitions)]
            /\ pc = "done" => Len(final_labels_) = n_samples)

C24_Witness ==
    /\ pc = "done"
    /\ n_partitions = 2
    /\ DOMAIN run_files = {<<0, 24, 2>>, <<1, 32, 2>>}
    /\ ensemble_results[1].labels = (net24a :> 0 @@ net24b :> 1)
    /\ ensemble_results[2].distances = (h1 :> 1 @@ h2 :> 0)
    /\ mapped_partitions = <<<<0, 0, 1>>, <<0, 1, -1>>>>

\* the sum of the distances of host h's keys over the members 1..j whose
\* label matrix entry for h is not -1
RECURSIVE EligibleDistance(_, _)
EligibleDistance(h, j) ==
    IF j = 0 THEN 0
    ELSE EligibleDistance(h, j - 1)
         + (IF mapped_partitions[j][h] # -1
            THEN ensemble_results[j].distances[
                     HostKey(host_list[h], ensemble_results[j].mask)]
            ELSE 0)

\* C25: for every host and member, the member's distance is part of the
\* host's outlier score exactly when the label matrix entry of the pair is
\* not -1, whatever integer labels the partitioner returns: the score is the
\* sum of the distances of the members whose entry for the host is not -1.
C25_AccumulationMatchesEligibility ==
    AllReconciled =>
        /\ \A h \in Hosts : \A j \in Members :
              ~Absent(h, j) <=> mapped_partitions[j][h] # -1
        /\ \A h \in Hosts :
              outlier_vector[h] = EligibleDistance(h, n_partitions)

\* ------------------------------------------------------------------------
\* The stages
\* ------------------------------------------------------------------------

\* the stages whose execute has been called
ExecutedStages == {executed[i] : i \in 1..Len(executed)}

\* the attempts to create a clusterer, in the order they were made
Created == SelectSeq(calls, LAMBDA c : c[2] = "create_clusterer")

\* ClusteringStage.execute has returned
ClusteringReturned == "ClusteringStage" \in ExecutedStages /\ step = "idle"

\* C26: the strategies are attempted in list order; a call that raises is
\* followed by the creation of the next strategy's clusterer; the stage never
\* raises, and when it has returned every listed strategy was attempted and
\* the context holds clustering_complete, whatever failed.
C26_StrategiesIsolated ==
    /\ \A p \in 1..Len(Created) : Created[p][1] = p
    /\ \A p \in 1..(Len(calls) - 1) :
          calls[p][3] = "raised" =>
              /\ calls[p + 1][1] = calls[p][1] + 1
              /\ calls[p + 1][2] = "create_clusterer"
    /\ halted => Stages[stage_idx] # "ClusteringStage"
    /\ ClusteringReturned =>
          /\ Len(Created) = Len(models_to_run)
          /\ "clustering_complete" \in context
          /\ stage_idx > 5

\* both strategies failed, one of them for its unknown name, and the stage
\* returned
C26_Witness ==
    /\ ClusteringReturned
    /\ Len(models_to_run) = 2
    /\ \A i \in 1..2 : \E p \in 1..Len(calls) :
          calls[p][1] = i /\ calls[p][3] = "raised"
    /\ \E p \in 1..Len(calls) :
          calls[p][2] = "create_clusterer" /\ calls[p][3] = "raised"
    /\ \E p \in 1..Len(calls) :
          calls[p][2] = "save_results" /\ calls[p][3] = "raised"
    /\ "clustering_complete" \in context

\* the order in which the stages are registered
RegistrationOrder ==
    <<"PreprocessingStage", "FeatureEngineeringStage",
      "TimeSeriesGenerationStage", "DataReformattingStage",
      "ClusteringStage", "EvaluationStage">>

\* the stages executed are the first ones of the registration order, each
\* executed once
ExecutedInOrder ==
    /\ Len(executed) <= Len(RegistrationOrder)
    /\ \A i \in 1..Len(executed) : executed[i] = RegistrationOrder[i]

\* a stage is given the context the stage before it returned, and after a
\* halt no stage is executed and the context does not change
C28_FacadeStep ==
    /\ executed' # executed => context = returned /\ ~halted
    /\ halted => halted' /\ executed' = executed /\ context' = context

\* the statement with the context equal to what the last successful stage
\* returned
C28_HaltKeepsReturnedContext ==
    /\ ExecutedInOrder
    /\ halted => context = returned

\* C28: the stages are executed in registration order, each given the context
\* the previous one returned; after a stage raised no stage is executed; the
\* context then holds what the last successful stage returned and, in
\* addition, the key 'timeseries_start' when the stage that raised is
\* FeatureEngineeringStage and it raised after setting that key.
C28_HaltKeepsSharedContext ==
    /\ []ExecutedInOrder
    /\ [][C28_FacadeStep]_vars
    /\ [](halted =>
            /\ returned \subseteq context
            /\ context \ returned \subseteq {"timeseries_start"}
            /\ context # returned =>
                  Stages[stage_idx] = "FeatureEngineeringStage")

\* FeatureEngineeringStage raised after it had set 'timeseries_start' in the
\* context that PreprocessingStage returned
C28_Witness ==
    /\ halted
    /\ executed = SubSeq(RegistrationOrder, 1, 2)
    /\ returned = {"preprocessing_complete"}
    /\ context = returned \cup {"timeseries_start"}

\* C29: when FeatureEngineeringStage returned a context without
\* 'timeseries_start', executing TimeSeriesGenerationStage halts the pipeline
\* there, so that no later stage is executed; and a run in which the
\* Clustering or the Evaluation stage is executed has 'timeseries_start' set.
C29_NoStartNoClustering ==
    /\ Len(executed) >= 3 /\ "timeseries_start" \notin context =>
          /\ halted
          /\ stage_idx = 3
          /\ Len(executed) = 3
    /\ ExecutedStages \cap {"ClusteringStage", "EvaluationStage"} # {} =>
          "timeseries_start" \in context

\* FeatureEngineeringStage returned without the key and the next stage raised
C29_Witness ==
    /\ halted
    /\ stage_idx = 3
    /\ executed = SubSeq(RegistrationOrder, 1, 3)
    /\ returned = {"preprocessing_complete"}
    /\ context = returned

\* ------------------------------------------------------------------------
\* The calls of one strategy
\* ------------------------------------------------------------------------

\* how many of load_data, fit_predict, save_results, post_process have
\* completed
Completed ==
    CASE pc = "new" -> 0
      [] pc \in {"loaded", "fit"} -> 1
      [] pc = "fitted" -> 2
      [] pc \in {"saved", "reconcile", "co_built"} -> 3
      [] pc \in {"returned", "done"} -> 4
      [] OTHER -> -1

\* post_process has been entered
PostProcessEntered == pc \in {"reconcile", "co_built", "returned", "done"}

\* a call completes only after the calls before it, an exception ends the
\* strategy, and an exception in save_results leaves post_process untouched
C27_CallStep ==
    /\ pc # "error" /\ pc' # "error" =>
          Completed' \in {Completed, Completed + 1}
    /\ pc = "error" => UNCHANGED vars
    /\ pc = "fitted" /\ pc' = "error" =>
          /\ run_idx' = 0
          /\ mapped_partitions' = <<>>
          /\ co_matrix' = <<>>
          /\ ~sorted_csv'.written
          /\ ~types_json'.written

\* C27: the calls of the strategy complete in the order load_data,
\* fit_predict, save_results, post_process, starting from the clusterer as
\* constructed; post_process is entered only with every member persisted;
\* after an exception nothing more is called, and when save_results raised
\* post_process has not run and no output table exists.
C27_CallsInOrder ==
    /\ [][C27_CallStep]_vars
    /\ [](pc = "new" =>
            /\ host_list = <<>>
            /\ ensemble_results = <<>>
            /\ run_files = <<>>)
    /\ [](PostProcessEntered => run_files = RunFiles(ensemble_results))
    /\ [](sorted_csv.written => pc = "done")

\* save_results raised at the second of several members
C27_Witness ==
    /\ pc = "error"
    /\ Len(ensemble_results) >= 2
    /\ run_files = RunFiles(SubSeq(ensemble_results, 1, 1))
    /\ run_idx = 0
    /\ ~sorted_csv.written

\* ------------------------------------------------------------------------
\* The files of the ensemble members
\* ------------------------------------------------------------------------

\* save_results has just completed
Saved == pc = "saved"

C30_WitnessEmpty ==
    /\ pc = "saved"
    /\ n_partitions = 0
    /\ run_files = <<>>

====
